---- MODULE Spec2Model ----
(***************************************************************************)
(* Host/cluster assignment servers of p2p-cluster-handler-server.          *)
(*                                                                         *)
(*   clustered variant : src/server.js                                     *)
(*   flat variant      : src/unnamed/part_000                              *)
(*                                                                         *)
(* Both are single-process Express servers around one module-level object  *)
(* schoolData.  A handler runs without interruption up to its              *)
(* `await saveData()`; the part after the await (the response) runs when   *)
(* the file write has completed.  Timestamps (registeredAt, createdAt) and *)
(* the random frequency label are written but never read by any branch and *)
(* are left out of the records.                                            *)
(***************************************************************************)
EXTENDS Integers, Sequences, FiniteSets, TLC

VARIABLES
    deployed,    \* which of the two programs is running: "clustered" | "flat"
    schoolData,  \* own properties of `schoolData` (server.js:31, part_000:14)
    protoProps,  \* properties the handlers have set on objects inherited by schoolData
    inflight,    \* handlers suspended at `await saveData()`, in start order
    file,        \* content of DATA_FILE
    last,        \* the request of the latest handler start, its response, whether it
                 \* called saveData(), and whether it repeats the request before it
    out,         \* what the latest step sent and logged: the response passed to
                 \* res.json (none when the step sent none) and whether saveData()
                 \* logged a write error
    peer         \* a flat server run beside the deployed one: its schoolData, its
                 \* handlers suspended at their save, its data file and its latest
                 \* request and response (it is sent requests in the paired runs only)

vars == <<deployed, schoolData, protoProps, inflight, file, last, out, peer>>

----------------------------------------------------------------------------
(* Program constants *)

MAX_DEVICES_PER_CLUSTER == 10
MAX_HOSTS_PER_CLUSTER == 3
FLAT_MAX_HOSTS == 3

(* Bounds of the model *)

\* lastClusterNumber is not raised beyond this value
MaxClusterNumber == 2
\* number of handlers that may be suspended at their save at the same time
MaxInFlight == 2

(* Input domains *)

\* "constructor" is a property every JavaScript object inherits from
\* Object.prototype; the others are ordinary school codes.
SchoolCodes == {"ABC", "XYZ", "constructor"}
DeviceIds == {"d1", "d2", "d3", "d4"}
\* the (schoolCode, deviceId) bodies posted in the sequential runs; "" is a
\* missing or empty field
Placements ==
    ({"ABC"} \X DeviceIds) \cup ({"XYZ"} \X {"d1"})
        \cup {<<"constructor", "d1">>, <<"", "d1">>, <<"ABC", "">>}
\* the school codes of the cluster routes in the sequential runs
ClusterSchools == {"ABC", "constructor"}
\* devices of the capacity runs, in the order in which unseen ones arrive
BulkDevices == <<"d1", "d2", "d3", "d4", "d5", "d6", "d7", "d8", "d9", "d10", "d11", "d12">>
CapSchools == {"ABC", "XYZ"}
\* ABC is posted all of BulkDevices, XYZ the first two of them
BulkOf(schoolCode) == IF schoolCode = "ABC" THEN BulkDevices ELSE SubSeq(BulkDevices, 1, 2)
RaceSchools == {"ABC"}
RaceDevices == {"d1", "d2"}
\* keys that `schoolData[key]` resolves through the prototype chain
PrototypeKeys == {"constructor"}

\* JSON/JavaScript markers
Null == "null"
Absent == "absent"          \* property not present in the JSON body (undefined)
NoFile == [errno |-> "ENOENT"]   \* DATA_FILE does not exist
\* content that JSON.parse rejects (an interrupted or foreign write)
Unparsable == [text |-> "{"]

----------------------------------------------------------------------------
(* Helpers on sequences *)

Range(s) == {s[i] : i \in 1..Len(s)}

\* Array.prototype.findIndex and the first hit of a for-in loop: the 1-based
\* place of the first TRUE in the sequence of test results, 0 when there is none
FirstTrue(tests) ==
    IF \E i \in 1..Len(tests) : tests[i]
    THEN CHOOSE i \in 1..Len(tests) : tests[i] /\ \A j \in 1..(i-1) : ~tests[j]
    ELSE 0

\* devices.map(device => device.deviceId)
DeviceIdsOf(devices) == [i \in 1..Len(devices) |-> devices[i].deviceId]

\* devices.findIndex(device => device.deviceId === deviceId), 1-based, 0 for -1
DeviceIndex(devices, deviceId) ==
    FirstTrue([i \in 1..Len(devices) |-> devices[i].deviceId = deviceId])

\* hosts[i] of a JavaScript array (0-based i): undefined beyond the end
HostAt(hosts, i) == IF i + 1 <= Len(hosts) THEN hosts[i + 1] ELSE Absent

\* hosts[i] || null
HostOrNull(hosts, i) == IF i + 1 <= Len(hosts) THEN hosts[i + 1] ELSE Null

----------------------------------------------------------------------------
(* Property lookup on schoolData *)

\* `schoolData[schoolCode]` is truthy: an own entry, or a property inherited
\* from Object.prototype
Truthy(sd, schoolCode) ==
    schoolCode \in DOMAIN sd \/ schoolCode \in PrototypeKeys

\* the value is an object of the state tree (not an inherited one)
IsOwn(sd, schoolCode) == schoolCode \in DOMAIN sd

\* delete schoolData[schoolCode]
DeleteKey(sd, schoolCode) ==
    [k \in (DOMAIN sd) \ {schoolCode} |-> sd[k]]

\* schoolData[schoolCode] = value
SetKey(sd, schoolCode, value) ==
    [k \in (DOMAIN sd) \cup {schoolCode} |-> IF k = schoolCode THEN value ELSE sd[k]]

EmptyData == [k \in {} |-> 0]

----------------------------------------------------------------------------
(* Responses.  One record shape for every route; fields a route does not   *)
(* send are Absent (strings), 0 (numbers) or << >> (lists).                *)

Response(status, message) ==
    [status |-> status, success |-> (status = 200), message |-> message,
     role |-> Absent, position |-> 0,
     clusterName |-> << >>, clusterNumber |-> 0,
     hostDeviceId |-> Absent, host2DeviceId |-> Absent, host3DeviceId |-> Absent,
     hosts |-> << >>, devices |-> << >>,
     totalDevices |-> 0, totalDevicesInSchool |-> 0, lastClusterNumber |-> 0,
     clusters |-> << >>]

NoResponse == Response(0, "none")

----------------------------------------------------------------------------
(* Clustered variant: src/server.js *)

\* `${schoolCode}_${clusterNumber}`
ClusterName(schoolCode, clusterNumber) == <<schoolCode, clusterNumber>>

NewSchool == [clusters |-> << >>, totalDevices |-> 0, lastClusterNumber |-> 0]

NewCluster(clusterName, clusterNumber) ==
    [clusterName |-> clusterName, clusterNumber |-> clusterNumber,
     devices |-> << >>, hosts |-> << >>]

\* school.clusters[clusterName]: 1-based place in insertion order, 0 if undefined
ClusterIndex(clusters, clusterName) ==
    FirstTrue([i \in 1..Len(clusters) |-> clusters[i].clusterName = clusterName])

\* FindExisting that never recognises a registered device
FindExistingNever(clusters, deviceId) == 0

\* a first loop that looks into the first cluster only
FindExistingInFirst(clusters, deviceId) ==
    IF clusters # << >> /\ DeviceIndex(clusters[1].devices, deviceId) # 0 THEN 1 ELSE 0

\* first loop of findOrCreateCluster: the first cluster, in insertion order,
\* whose devices contain deviceId (0: none)
FindExisting(clusters, deviceId) ==
    FirstTrue([i \in 1..Len(clusters) |-> DeviceIndex(clusters[i].devices, deviceId) # 0])

\* a second loop that never finds room
FindSpaceNever(clusters) == 0

\* FindSpace with <= in place of <
FindSpaceInclusive(clusters) ==
    FirstTrue([i \in 1..Len(clusters) |->
                 Len(clusters[i].devices) <= MAX_DEVICES_PER_CLUSTER])

\* second loop: the first cluster with room (0: none)
FindSpace(clusters) ==
    FirstTrue([i \in 1..Len(clusters) |->
                 Len(clusters[i].devices) < MAX_DEVICES_PER_CLUSTER])

\* school.clusters[newClusterName] = {...}: a new key goes to the end, an
\* existing key keeps its place
PutCluster(clusters, cluster) ==
    IF ClusterIndex(clusters, cluster.clusterName) = 0
    THEN Append(clusters, cluster)
    ELSE [clusters EXCEPT ![ClusterIndex(clusters, cluster.clusterName)] = cluster]

\* a numbering that counts the clusters the school holds
NextClusterNumberByCount(school) == Len(school.clusters) + 1

\* the number given to a cluster created in `school`
NextClusterNumber(school) == school.lastClusterNumber + 1

\* the school after lines 98-107: counter raised, empty cluster stored
WithNewCluster(schoolCode, school) ==
    [school EXCEPT
        !.lastClusterNumber = NextClusterNumber(school),
        !.clusters = PutCluster(school.clusters,
                        NewCluster(ClusterName(schoolCode, NextClusterNumber(school)),
                                   NextClusterNumber(school)))]

\* lines 62-69: the entry is created only when schoolData[schoolCode] is falsy
InitSchool(sd, schoolCode) ==
    IF Truthy(sd, schoolCode) THEN sd ELSE SetKey(sd, schoolCode, NewSchool)

\* findOrCreateCluster(schoolCode, deviceId).  The result names the cluster by
\* its place in school.clusters.  For an inherited key `school` is an object of
\* the prototype chain without `clusters`: both for-in loops run over undefined
\* (no iteration), `school.lastClusterNumber += 1` stores NaN on that object,
\* and `school.clusters[newClusterName] = ...` throws a TypeError.
findOrCreateCluster(sd, schoolCode, deviceId) ==
    LET sd1 == InitSchool(sd, schoolCode) IN
    IF ~IsOwn(sd1, schoolCode)
    THEN [threw |-> TRUE, data |-> sd1, index |-> 0, isExisting |-> FALSE]
    ELSE
      LET school == sd1[schoolCode]
          found  == FindExisting(school.clusters, deviceId)
          space  == FindSpace(school.clusters)
      IN  IF found # 0
          THEN [threw |-> FALSE, data |-> sd1, index |-> found, isExisting |-> TRUE]
          ELSE IF space # 0
          THEN [threw |-> FALSE, data |-> sd1, index |-> space, isExisting |-> FALSE]
          ELSE LET school2 == WithNewCluster(schoolCode, school) IN
               [threw |-> FALSE,
                data |-> SetKey(sd1, schoolCode, school2),
                index |-> ClusterIndex(school2.clusters,
                             ClusterName(schoolCode, school2.lastClusterNumber)),
                isExisting |-> FALSE]

\* findOrCreateCluster would raise lastClusterNumber
CreatesCluster(sd, schoolCode, deviceId) ==
    /\ ~(schoolCode \in PrototypeKeys /\ ~IsOwn(sd, schoolCode))
    /\ LET clusters == IF IsOwn(sd, schoolCode) THEN sd[schoolCode].clusters ELSE << >>
       IN  FindExisting(clusters, deviceId) = 0 /\ FindSpace(clusters) = 0

\* PushHost without the cap of three hosts
PushHostUncapped(hosts, deviceId) == Append(hosts, deviceId)

\* PushHost that stops at two hosts
PushHostTwo(hosts, deviceId) ==
    IF Len(hosts) < 2 THEN Append(hosts, deviceId) ELSE hosts

\* lines 139-142
PushHost(hosts, deviceId) ==
    IF Len(hosts) < MAX_HOSTS_PER_CLUSTER THEN Append(hosts, deviceId) ELSE hosts

\* AddDevice with unshift in place of push
AddDeviceInFront(cluster, deviceId) ==
    [cluster EXCEPT !.devices = <<[deviceId |-> deviceId]>> \o cluster.devices,
                    !.hosts = PushHost(cluster.hosts, deviceId)]

\* lines 133-142: the cluster after registering a new device
AddDevice(cluster, deviceId) ==
    [cluster EXCEPT !.devices = Append(cluster.devices, [deviceId |-> deviceId]),
                    !.hosts = PushHost(cluster.hosts, deviceId)]

\* lines 132-146 on the school
Register(school, index, deviceId) ==
    [school EXCEPT !.clusters[index] = AddDevice(school.clusters[index], deviceId),
                   !.totalDevices = school.totalDevices + 1]

\* RoleSlots without the third-host branch
RoleSlotsTwoHosts(deviceIndex, deviceId, hosts) ==
    IF deviceIndex = 0 THEN
        [role |-> "host1", hostDeviceId |-> deviceId,
         host2DeviceId |-> Absent, host3DeviceId |-> Absent]
    ELSE IF deviceIndex = 1 THEN
        [role |-> "host2", hostDeviceId |-> HostAt(hosts, 0),
         host2DeviceId |-> deviceId, host3DeviceId |-> Absent]
    ELSE
        [role |-> "client", hostDeviceId |-> HostAt(hosts, 0),
         host2DeviceId |-> HostAt(hosts, 1), host3DeviceId |-> HostAt(hosts, 2)]

\* lines 166-191: role and host slots from the device's 0-based index
RoleSlots(deviceIndex, deviceId, hosts) ==
    IF deviceIndex = 0 THEN
        [role |-> "host1", hostDeviceId |-> deviceId,
         host2DeviceId |-> Absent, host3DeviceId |-> Absent]
    ELSE IF deviceIndex = 1 THEN
        [role |-> "host2", hostDeviceId |-> HostAt(hosts, 0),
         host2DeviceId |-> deviceId, host3DeviceId |-> Absent]
    ELSE IF deviceIndex = 2 THEN
        [role |-> "host3", hostDeviceId |-> HostAt(hosts, 0),
         host2DeviceId |-> HostAt(hosts, 1), host3DeviceId |-> deviceId]
    ELSE
        [role |-> "client", hostDeviceId |-> HostAt(hosts, 0),
         host2DeviceId |-> HostAt(hosts, 1), host3DeviceId |-> HostAt(hosts, 2)]

\* lines 148-201: the response body
ComposeResponse(schoolCode, deviceId, school, cluster) ==
    LET deviceIndex == DeviceIndex(cluster.devices, deviceId) - 1
        slots == RoleSlots(deviceIndex, deviceId, cluster.hosts)
    IN  [Response(200, "placed") EXCEPT
            !.role = slots.role,
            !.position = deviceIndex + 1,
            !.clusterName = cluster.clusterName,
            !.clusterNumber = cluster.clusterNumber,
            !.hostDeviceId = slots.hostDeviceId,
            !.host2DeviceId = slots.host2DeviceId,
            !.host3DeviceId = slots.host3DeviceId,
            !.hosts = <<HostOrNull(cluster.hosts, 0), HostOrNull(cluster.hosts, 1),
                        HostOrNull(cluster.hosts, 2)>>,
            !.devices = DeviceIdsOf(cluster.devices),
            !.totalDevices = Len(cluster.devices),
            !.totalDevicesInSchool = school.totalDevices]

\* the synchronous part of POST /api/get-hosts (lines 118-201, 208-214):
\* the state tree it leaves, its response, and whether it reached saveData()
PlaceClustered(sd, schoolCode, deviceId) ==
    IF schoolCode = "" \/ deviceId = ""
    THEN [data |-> sd, resp |-> Response(400, "School code and device ID are required"),
          saves |-> FALSE, pollutes |-> FALSE]
    ELSE
      LET r == findOrCreateCluster(sd, schoolCode, deviceId) IN
      IF r.threw
      THEN [data |-> r.data, resp |-> Response(500, "Internal server error"),
            saves |-> FALSE, pollutes |-> TRUE]
      ELSE
        LET school == IF r.isExisting THEN r.data[schoolCode]
                      ELSE Register(r.data[schoolCode], r.index, deviceId)
        IN  [data |-> SetKey(r.data, schoolCode, school),
             resp |-> ComposeResponse(schoolCode, deviceId, school, school.clusters[r.index]),
             saves |-> TRUE, pollutes |-> FALSE]

\* the per-cluster entry of GET /api/school/:schoolCode (lines 235-243)
ClusterSummary(cluster) ==
    [clusterName |-> cluster.clusterName, clusterNumber |-> cluster.clusterNumber,
     totalDevices |-> Len(cluster.devices), hosts |-> cluster.hosts,
     devices |-> DeviceIdsOf(cluster.devices),
     isFull |-> (Len(cluster.devices) >= MAX_DEVICES_PER_CLUSTER)]

\* GET /api/school/:schoolCode (lines 218-263).  For an inherited key
\* Object.keys(school.clusters) throws and the catch answers 500.
QuerySchoolClustered(sd, schoolCode) ==
    IF ~Truthy(sd, schoolCode) THEN Response(404, "School not found")
    ELSE IF ~IsOwn(sd, schoolCode) THEN Response(500, "Internal server error")
    ELSE LET school == sd[schoolCode] IN
         [Response(200, "school") EXCEPT
            !.totalDevices = school.totalDevices,
            !.totalDevicesInSchool = school.totalDevices,
            !.lastClusterNumber = school.lastClusterNumber,
            !.clusters = [i \in 1..Len(school.clusters) |->
                            ClusterSummary(school.clusters[i])]]

\* GET /api/school/:schoolCode/cluster/:clusterNumber (lines 266-308).  For an
\* inherited key `schoolData[schoolCode].clusters[clusterName]` throws.
QueryCluster(sd, schoolCode, clusterNumber) ==
    IF ~Truthy(sd, schoolCode) THEN Response(404, "School not found")
    ELSE IF ~IsOwn(sd, schoolCode) THEN Response(500, "Internal server error")
    ELSE LET clusters == sd[schoolCode].clusters
             index == ClusterIndex(clusters, ClusterName(schoolCode, clusterNumber))
         IN  IF index = 0 THEN Response(404, "Cluster not found")
             ELSE [Response(200, "cluster") EXCEPT
                     !.clusterName = clusters[index].clusterName,
                     !.clusterNumber = clusters[index].clusterNumber,
                     !.totalDevices = Len(clusters[index].devices),
                     !.hosts = clusters[index].hosts,
                     !.devices = DeviceIdsOf(clusters[index].devices)]

\* a school reset that empties the whole state tree
ResetSchoolAll(sd, schoolCode) ==
    IF Truthy(sd, schoolCode)
    THEN [data |-> EmptyData, resp |-> Response(200, "School reset"),
          saves |-> TRUE, pollutes |-> FALSE]
    ELSE [data |-> sd, resp |-> Response(404, "School not found"),
          saves |-> FALSE, pollutes |-> FALSE]

\* DELETE /api/school/:schoolCode (lines 311-337; part_000 lines 179-205).  The
\* test is truthiness of schoolData[schoolCode]; `delete` of a key that is not
\* an own property changes nothing and does not throw.
ResetSchool(sd, schoolCode) ==
    IF Truthy(sd, schoolCode)
    THEN [data |-> DeleteKey(sd, schoolCode), resp |-> Response(200, "School reset"),
          saves |-> TRUE, pollutes |-> FALSE]
    ELSE [data |-> sd, resp |-> Response(404, "School not found"),
          saves |-> FALSE, pollutes |-> FALSE]

\* RemoveCluster without the update of totalDevices
RemoveClusterKeepCount(school, index) ==
    [school EXCEPT
        !.clusters = [i \in 1..(Len(school.clusters) - 1) |->
                        IF i < index THEN school.clusters[i] ELSE school.clusters[i + 1]]]

\* RemoveCluster that also takes the cluster's number back
RemoveClusterLowerCounter(school, index) ==
    [school EXCEPT
        !.totalDevices = school.totalDevices - Len(school.clusters[index].devices),
        !.lastClusterNumber = school.lastClusterNumber - 1,
        !.clusters = [i \in 1..(Len(school.clusters) - 1) |->
                        IF i < index THEN school.clusters[i] ELSE school.clusters[i + 1]]]

\* RemoveCluster that deletes the school's oldest cluster, whichever was named
RemoveClusterFirst(school, index) ==
    [school EXCEPT
        !.totalDevices = school.totalDevices - Len(school.clusters[1].devices),
        !.clusters = Tail(school.clusters)]

\* lines 361-365: the school without the cluster at `index`
RemoveCluster(school, index) ==
    [school EXCEPT
        !.totalDevices = school.totalDevices - Len(school.clusters[index].devices),
        !.clusters = [i \in 1..(Len(school.clusters) - 1) |->
                        IF i < index THEN school.clusters[i] ELSE school.clusters[i + 1]]]

\* DELETE /api/school/:schoolCode/cluster/:clusterNumber (lines 340-381)
ResetCluster(sd, schoolCode, clusterNumber) ==
    IF ~Truthy(sd, schoolCode)
    THEN [data |-> sd, resp |-> Response(404, "School not found"),
          saves |-> FALSE, pollutes |-> FALSE]
    ELSE IF ~IsOwn(sd, schoolCode)
    THEN [data |-> sd, resp |-> Response(500, "Internal server error"),
          saves |-> FALSE, pollutes |-> FALSE]
    ELSE LET school == sd[schoolCode]
             index == ClusterIndex(school.clusters, ClusterName(schoolCode, clusterNumber))
         IN  IF index = 0
             THEN [data |-> sd, resp |-> Response(404, "Cluster not found"),
                   saves |-> FALSE, pollutes |-> FALSE]
             ELSE [data |-> SetKey(sd, schoolCode, RemoveCluster(school, index)),
                   resp |-> Response(200, "Cluster reset"),
                   saves |-> TRUE, pollutes |-> FALSE]

----------------------------------------------------------------------------
(* Flat variant: src/unnamed/part_000 *)

FlatNewSchool == [devices |-> << >>, hosts |-> << >>]

\* lines 62-67
FlatInitSchool(sd, schoolCode) ==
    IF Truthy(sd, schoolCode) THEN sd ELSE SetKey(sd, schoolCode, FlatNewSchool)

\* lines 81-84
\* FlatPushHost that stops at two hosts
FlatPushHostTwo(hosts, deviceId) ==
    IF Len(hosts) < 2 THEN Append(hosts, deviceId) ELSE hosts

FlatPushHost(hosts, deviceId) ==
    IF Len(hosts) < FLAT_MAX_HOSTS THEN Append(hosts, deviceId) ELSE hosts

\* FlatRegister without the check for an existing device
FlatRegisterAlways(school, deviceId) ==
    [devices |-> Append(school.devices, [deviceId |-> deviceId]),
     hosts |-> FlatPushHost(school.hosts, deviceId)]

\* lines 72-85
FlatRegister(school, deviceId) ==
    IF DeviceIndex(school.devices, deviceId) = 0
    THEN [devices |-> Append(school.devices, [deviceId |-> deviceId]),
          hosts |-> FlatPushHost(school.hosts, deviceId)]
    ELSE school

\* lines 98-123
FlatRoleSlots(deviceIndex, deviceId, hosts) ==
    IF deviceIndex = 0 THEN
        [role |-> "host1", hostDeviceId |-> deviceId,
         host2DeviceId |-> Absent, host3DeviceId |-> Absent]
    ELSE IF deviceIndex = 1 THEN
        [role |-> "host2", hostDeviceId |-> HostAt(hosts, 0),
         host2DeviceId |-> deviceId, host3DeviceId |-> Absent]
    ELSE IF deviceIndex = 2 THEN
        [role |-> "host3", hostDeviceId |-> HostAt(hosts, 0),
         host2DeviceId |-> HostAt(hosts, 1), host3DeviceId |-> deviceId]
    ELSE
        [role |-> "client", hostDeviceId |-> HostAt(hosts, 0),
         host2DeviceId |-> HostAt(hosts, 1), host3DeviceId |-> HostAt(hosts, 2)]

\* lines 87-130
FlatComposeResponse(schoolCode, deviceId, school) ==
    LET deviceIndex == DeviceIndex(school.devices, deviceId) - 1
        slots == FlatRoleSlots(deviceIndex, deviceId, school.hosts)
    IN  [Response(200, "placed") EXCEPT
            !.role = slots.role,
            !.position = deviceIndex + 1,
            !.hostDeviceId = slots.hostDeviceId,
            !.host2DeviceId = slots.host2DeviceId,
            !.host3DeviceId = slots.host3DeviceId,
            !.hosts = <<HostOrNull(school.hosts, 0), HostOrNull(school.hosts, 1),
                        HostOrNull(school.hosts, 2)>>,
            !.totalDevices = Len(school.devices),
            !.totalDevicesInSchool = Len(school.devices)]

\* the synchronous part of POST /api/get-hosts (lines 50-130, 139-145).  For
\* an inherited key `school.devices.findIndex` throws before anything is written.
PlaceFlat(sd, schoolCode, deviceId) ==
    IF schoolCode = "" \/ deviceId = ""
    THEN [data |-> sd, resp |-> Response(400, "School code and device ID are required"),
          saves |-> FALSE, pollutes |-> FALSE]
    ELSE
      LET sd1 == FlatInitSchool(sd, schoolCode) IN
      IF ~IsOwn(sd1, schoolCode)
      THEN [data |-> sd1, resp |-> Response(500, "Internal server error"),
            saves |-> FALSE, pollutes |-> FALSE]
      ELSE
        LET school == FlatRegister(sd1[schoolCode], deviceId) IN
        [data |-> SetKey(sd1, schoolCode, school),
         resp |-> FlatComposeResponse(schoolCode, deviceId, school),
         saves |-> TRUE, pollutes |-> FALSE]

\* GET /api/school/:schoolCode (lines 149-176)
QuerySchoolFlat(sd, schoolCode) ==
    IF ~Truthy(sd, schoolCode) THEN Response(404, "School not found")
    ELSE IF ~IsOwn(sd, schoolCode) THEN Response(500, "Internal server error")
    ELSE [Response(200, "school") EXCEPT
            !.totalDevices = Len(sd[schoolCode].devices),
            !.totalDevicesInSchool = Len(sd[schoolCode].devices),
            !.hosts = sd[schoolCode].hosts,
            !.devices = DeviceIdsOf(sd[schoolCode].devices)]

----------------------------------------------------------------------------
(* Persistence *)

\* JSON.stringify(schoolData, null, 2), evaluated when saveData() is called:
\* the document holds the own enumerable properties of the tree at that moment
Stringify(sd) == [json |-> sd]

\* JSON.parse(data): the tree of a document; throws on other content
Parse(content) ==
    IF "json" \in DOMAIN content
    THEN [threw |-> FALSE, data |-> content.json]
    ELSE [threw |-> TRUE, data |-> EmptyData]

\* an existing file is read and parsed; schoolData becomes the parsed tree,
\* or {} when readFile fails with ENOENT or anything else throws
loadData(content) ==
    IF content = NoFile THEN EmptyData
    ELSE LET parsed == Parse(content) IN
         IF parsed.threw THEN EmptyData ELSE parsed.data

----------------------------------------------------------------------------
(* Handlers *)

Request(kind, schoolCode, deviceId, clusterNumber) ==
    [kind |-> kind, schoolCode |-> schoolCode, deviceId |-> deviceId,
     clusterNumber |-> clusterNumber]

NoRequest == Request("none", "", "", 0)

\* what a step sent with res.json and whether it logged 'Error saving data:'
Output(resp, saveError) == [resp |-> resp, saveError |-> saveError]
NoOutput == Output(NoResponse, FALSE)

\* the flat server beside the deployed one, after its loadData() found no
\* data file
FreshPeer ==
    [schoolData |-> EmptyData, inflight |-> << >>, file |-> NoFile,
     last |-> [request |-> NoRequest, resp |-> NoResponse]]

Idle == inflight = << >>
Admit == Len(inflight) < MaxInFlight

\* A handler runs from its start to its first await (or to its end) as one
\* step; `outcome` is what that part computed.  When it called saveData() the
\* handler stays suspended, holding its response and the document handed to
\* fs.writeFile, until SaveDone.
Handle(request, outcome) ==
    /\ schoolData' = outcome.data
    /\ protoProps' = IF outcome.pollutes THEN protoProps \cup {request.schoolCode}
                     ELSE protoProps
    /\ last' = [request |-> request, resp |-> outcome.resp, saved |-> outcome.saves,
                repeated |-> (request = last.request)]
    /\ inflight' = IF outcome.saves
                   THEN Append(inflight, [request |-> request, resp |-> outcome.resp,
                                          document |-> Stringify(outcome.data)])
                   ELSE inflight
    /\ out' = IF outcome.saves THEN NoOutput ELSE Output(outcome.resp, FALSE)
    /\ UNCHANGED <<deployed, file>>

\* lastClusterNumber stays within the model's bound
WithinBound(schoolCode, deviceId) ==
    CreatesCluster(schoolData, schoolCode, deviceId) =>
        (IF IsOwn(schoolData, schoolCode)
         THEN schoolData[schoolCode].lastClusterNumber ELSE 0) < MaxClusterNumber

PostGetHosts(schoolCode, deviceId, admit) ==
    /\ admit
    /\ deployed = "clustered"
    /\ schoolCode # "" /\ deviceId # "" => WithinBound(schoolCode, deviceId)
    /\ Handle(Request("place", schoolCode, deviceId, 0),
              PlaceClustered(schoolData, schoolCode, deviceId))

FlatPostGetHosts(schoolCode, deviceId, admit) ==
    /\ admit
    /\ deployed = "flat"
    /\ Handle(Request("place", schoolCode, deviceId, 0),
              PlaceFlat(schoolData, schoolCode, deviceId))

GetSchool(schoolCode, admit) ==
    /\ admit
    /\ Handle(Request("getSchool", schoolCode, "", 0),
              [data |-> schoolData,
               resp |-> IF deployed = "clustered"
                        THEN QuerySchoolClustered(schoolData, schoolCode)
                        ELSE QuerySchoolFlat(schoolData, schoolCode),
               saves |-> FALSE, pollutes |-> FALSE])

GetCluster(schoolCode, clusterNumber, admit) ==
    /\ admit
    /\ deployed = "clustered"
    /\ Handle(Request("getCluster", schoolCode, "", clusterNumber),
              [data |-> schoolData,
               resp |-> QueryCluster(schoolData, schoolCode, clusterNumber),
               saves |-> FALSE, pollutes |-> FALSE])

DeleteSchool(schoolCode, admit) ==
    /\ admit
    /\ Handle(Request("resetSchool", schoolCode, "", 0),
              ResetSchool(schoolData, schoolCode))

DeleteCluster(schoolCode, clusterNumber, admit) ==
    /\ admit
    /\ deployed = "clustered"
    /\ Handle(Request("resetCluster", schoolCode, "", clusterNumber),
              ResetCluster(schoolData, schoolCode, clusterNumber))

\* inflight without its i-th handler
Resumed(i) ==
    [j \in 1..(Len(inflight) - 1) |->
        IF j < i THEN inflight[j] ELSE inflight[j + 1]]

\* a handler that reports a failed save to its client
ResumeResponseError(handler, failed) ==
    IF failed THEN Response(500, "Internal server error") ELSE handler.resp

\* the response a handler sends when saveData() has returned: saveData()
\* catches a write error and returns normally, so the handler goes on to
\* res.json(response) either way
ResumeResponse(handler, failed) == handler.resp

\* fs.writeFile of a suspended handler completes (in any order among the
\* writes in flight); the handler resumes and sends its response
SaveDone(i) ==
    /\ i \in 1..Len(inflight)
    /\ file' = inflight[i].document
    /\ inflight' = Resumed(i)
    /\ out' = Output(ResumeResponse(inflight[i], FALSE), FALSE)
    /\ UNCHANGED <<deployed, schoolData, protoProps, last, peer>>

\* fs.writeFile of a suspended handler rejects: the file is as it was (the
\* open failed) or holds a fragment (the write broke off); saveData() logs
\* the error and the handler resumes
SaveFailed(i) ==
    /\ i \in 1..Len(inflight)
    /\ file' \in {file, Unparsable}
    /\ inflight' = Resumed(i)
    /\ out' = Output(ResumeResponse(inflight[i], TRUE), TRUE)
    /\ UNCHANGED <<deployed, schoolData, protoProps, last, peer>>

----------------------------------------------------------------------------
(* Specifications *)

\* state after loadData() found no data file (lines 39-42)
Init ==
    /\ deployed \in {"clustered", "flat"}
    /\ schoolData = EmptyData
    /\ protoProps = {}
    /\ inflight = << >>
    /\ file = NoFile
    /\ last = [request |-> NoRequest, resp |-> NoResponse, saved |-> FALSE,
               repeated |-> FALSE]
    /\ out = NoOutput
    /\ peer = FreshPeer

ClusterNumbers == 1..MaxClusterNumber

\* Clients that wait for the response before they send the next request.
Next ==
    \/ \E p \in Placements : PostGetHosts(p[1], p[2], Idle) /\ UNCHANGED peer
    \/ \E p \in Placements : FlatPostGetHosts(p[1], p[2], Idle) /\ UNCHANGED peer
    \/ \E s \in SchoolCodes : GetSchool(s, Idle) /\ UNCHANGED peer
    \/ \E s \in ClusterSchools, n \in ClusterNumbers :
          GetCluster(s, n, Idle) /\ UNCHANGED peer
    \/ \E s \in SchoolCodes : DeleteSchool(s, Idle) /\ UNCHANGED peer
    \/ \E s \in ClusterSchools, n \in ClusterNumbers :
          DeleteCluster(s, n, Idle) /\ UNCHANGED peer
    \/ \E i \in 1..MaxInFlight : SaveDone(i)

Spec == Init /\ [][Next]_vars

\* Clients of the clustered server that post devices one request at a time.
\* A device its school does not hold arrives in the order of BulkOf, so that
\* twelve devices are reached without enumerating their permutations.
Registered(sd, schoolCode) ==
    IF IsOwn(sd, schoolCode)
    THEN UNION {{dev.deviceId : dev \in Range(c.devices)} : c \in Range(sd[schoolCode].clusters)}
    ELSE {}

Arrivals(sd, schoolCode) ==
    LET known == Registered(sd, schoolCode)
        unseen == SelectSeq(BulkOf(schoolCode), LAMBDA d : d \notin known)
    IN  known \cup (IF unseen = << >> THEN {} ELSE {Head(unseen)})

InitCap == Init /\ deployed = "clustered"

NextCap ==
    \/ \E s \in CapSchools : \E d \in Arrivals(schoolData, s) :
          PostGetHosts(s, d, Idle) /\ UNCHANGED peer
    \/ \E s \in CapSchools : DeleteSchool(s, Idle) /\ UNCHANGED peer
    \/ \E s \in CapSchools, n \in ClusterNumbers : DeleteCluster(s, n, Idle) /\ UNCHANGED peer
    \/ \E i \in 1..MaxInFlight : SaveDone(i)

SpecCap == InitCap /\ [][NextCap]_vars

\* The same clients in front of either server: the flat server is posted the
\* devices in the same arrival order and has no cluster routes.
FlatRegistered(sd, schoolCode) ==
    IF IsOwn(sd, schoolCode) THEN Range(DeviceIdsOf(sd[schoolCode].devices)) ELSE {}

FlatArrivals(sd, schoolCode) ==
    LET known == FlatRegistered(sd, schoolCode)
        unseen == SelectSeq(BulkOf(schoolCode), LAMBDA d : d \notin known)
    IN  known \cup (IF unseen = << >> THEN {} ELSE {Head(unseen)})

BulkArrivals(sd, schoolCode) ==
    IF deployed = "clustered" THEN Arrivals(sd, schoolCode)
    ELSE FlatArrivals(sd, schoolCode)

NextBulk ==
    \/ \E s \in CapSchools : \E d \in BulkArrivals(schoolData, s) :
          PostGetHosts(s, d, Idle) /\ UNCHANGED peer
    \/ \E s \in CapSchools : \E d \in BulkArrivals(schoolData, s) :
          FlatPostGetHosts(s, d, Idle) /\ UNCHANGED peer
    \/ \E s \in CapSchools : DeleteSchool(s, Idle) /\ UNCHANGED peer
    \/ \E s \in CapSchools, n \in ClusterNumbers : DeleteCluster(s, n, Idle) /\ UNCHANGED peer
    \/ \E i \in 1..MaxInFlight : SaveDone(i)

SpecBulk == Init /\ [][NextBulk]_vars

\* A clustered and a flat server side by side: every placement and every
\* school reset is sent to both, the next request when both have answered.
\* No cluster reset is sent (the flat server has no such route).

\* the flat server after the synchronous part of a handler (compare Handle)
PeerHandle(server, request, outcome) ==
    [server EXCEPT
        !.schoolData = outcome.data,
        !.last = [request |-> request, resp |-> outcome.resp],
        !.inflight = IF outcome.saves
                     THEN Append(server.inflight,
                                 [request |-> request, resp |-> outcome.resp,
                                  document |-> Stringify(outcome.data)])
                     ELSE server.inflight]

PeerIdle == peer.inflight = << >>

PairPostGetHosts(schoolCode, deviceId) ==
    /\ PeerIdle
    /\ PostGetHosts(schoolCode, deviceId, Idle)
    /\ peer' = PeerHandle(peer, Request("place", schoolCode, deviceId, 0),
                          PlaceFlat(peer.schoolData, schoolCode, deviceId))

PairDeleteSchool(schoolCode) ==
    /\ PeerIdle
    /\ DeleteSchool(schoolCode, Idle)
    /\ peer' = PeerHandle(peer, Request("resetSchool", schoolCode, "", 0),
                          ResetSchool(peer.schoolData, schoolCode))

\* fs.writeFile of the flat server's suspended handler completes
PeerSaveDone ==
    /\ ~PeerIdle
    /\ peer' = [peer EXCEPT !.file = Head(peer.inflight).document,
                            !.inflight = Tail(peer.inflight)]
    /\ UNCHANGED <<deployed, schoolData, protoProps, inflight, file, last, out>>

PairSchools == {"ABC", "XYZ", "constructor"}

InitPair == Init /\ deployed = "clustered"

NextPair ==
    \/ \E s \in PairSchools : \E d \in Arrivals(schoolData, s) : PairPostGetHosts(s, d)
    \/ \E s \in PairSchools : PairDeleteSchool(s)
    \/ \E i \in 1..MaxInFlight : SaveDone(i)
    \/ PeerSaveDone

SpecPair == InitPair /\ [][NextPair]_vars

\* Clients that send requests while earlier ones are still waiting for
\* their save.
NextRace ==
    \/ \E s \in RaceSchools, d \in RaceDevices : PostGetHosts(s, d, Admit) /\ UNCHANGED peer
    \/ \E s \in RaceSchools, d \in RaceDevices :
          FlatPostGetHosts(s, d, Admit) /\ UNCHANGED peer
    \/ \E s \in RaceSchools : DeleteSchool(s, Admit) /\ UNCHANGED peer
    \/ \E s \in RaceSchools, n \in ClusterNumbers :
          DeleteCluster(s, n, Admit) /\ UNCHANGED peer
    \/ \E i \in 1..MaxInFlight : SaveDone(i)

SpecRace == Init /\ [][NextRace]_vars

\* A server whose data file may be missing or unreadable at startup, whose
\* writes may fail, and which is stopped and started again between requests.
FailSchools == {"ABC"}
FailDevices == {"d1", "d2"}

\* startServer: a new process loads the data file; nothing of the old
\* process's memory is left
Restart ==
    /\ Idle
    /\ schoolData' = loadData(file)
    /\ protoProps' = {}
    /\ last' = [request |-> NoRequest, resp |-> NoResponse, saved |-> FALSE,
                repeated |-> FALSE]
    /\ out' = NoOutput
    /\ UNCHANGED <<deployed, inflight, file, peer>>

InitFail ==
    /\ deployed \in {"clustered", "flat"}
    /\ file \in {NoFile, Unparsable}
    /\ schoolData = loadData(file)
    /\ protoProps = {}
    /\ inflight = << >>
    /\ last = [request |-> NoRequest, resp |-> NoResponse, saved |-> FALSE,
               repeated |-> FALSE]
    /\ out = NoOutput
    /\ peer = FreshPeer

NextFail ==
    \/ \E s \in FailSchools, d \in FailDevices : PostGetHosts(s, d, Idle) /\ UNCHANGED peer
    \/ \E s \in FailSchools, d \in FailDevices :
          FlatPostGetHosts(s, d, Idle) /\ UNCHANGED peer
    \/ \E s \in FailSchools : GetSchool(s, Idle) /\ UNCHANGED peer
    \/ \E s \in FailSchools : DeleteSchool(s, Idle) /\ UNCHANGED peer
    \/ \E i \in 1..MaxInFlight : SaveDone(i)
    \/ \E i \in 1..MaxInFlight : SaveFailed(i)
    \/ Restart

SpecFail == InitFail /\ [][NextFail]_vars

----------------------------------------------------------------------------
(* Notions used by the properties *)

\* the device/host lists of the state tree: one per cluster (clustered
\* variant) or one per school (flat variant)
Groups(sd) ==
    IF deployed = "clustered"
    THEN UNION {{[schoolCode |-> s, devices |-> c.devices, hosts |-> c.hosts] :
                    c \in Range(sd[s].clusters)} : s \in DOMAIN sd}
    ELSE {[schoolCode |-> s, devices |-> sd[s].devices, hosts |-> sd[s].hosts] :
             s \in DOMAIN sd}

Prefix(s, n) == [i \in 1..n |-> s[i]]

Min(a, b) == IF a <= b THEN a ELSE b

\* a step in which a handler started (SaveDone leaves `last` alone and
\* shortens inflight)
HandlerStep == last' # last \/ Len(inflight') > Len(inflight)

\* the latest handler was a placement that was answered 200
Placed == last.request.kind = "place" /\ last.resp.status = 200

\* the deviceIds, in order, of the list the latest placement resolved to
PlacedList ==
    LET s == last.request.schoolCode IN
    IF deployed = "flat" THEN DeviceIdsOf(schoolData[s].devices)
    ELSE DeviceIdsOf(schoolData[s].clusters[
            ClusterIndex(schoolData[s].clusters, last.resp.clusterName)].devices)

----------------------------------------------------------------------------
(* C1: host-prefix invariant.  In every reachable state, for every cluster *)
(* (clustered variant) and every school (flat variant), hosts is the       *)
(* sequence of the deviceIds of the first min(3, len(devices)) devices, in *)
(* the same order; so hosts never has more than 3 entries.                 *)
C1_HostPrefix ==
    \A g \in Groups(schoolData) :
        /\ g.hosts = Prefix(DeviceIdsOf(g.devices), Min(3, Len(g.devices)))
        /\ Len(g.hosts) <= 3

\* a cluster created after a cluster reset holds four devices, three of them hosts
C1_Witness ==
    /\ deployed = "clustered"
    /\ \E g \in Groups(schoolData) : Len(g.devices) = 4 /\ Len(g.hosts) = 3
    /\ IsOwn(schoolData, "ABC") /\ schoolData["ABC"].lastClusterNumber = 2

----------------------------------------------------------------------------
\* number of device records held by the state tree
DeviceCount(sd) ==
    LET lens == {<<g, Len(g.devices)>> : g \in Groups(sd)}
        RECURSIVE Total(_)
        Total(S) == IF S = {} THEN 0
                    ELSE LET x == CHOOSE x \in S : TRUE IN x[2] + Total(S \ {x})
    IN  Total(lens)

(* C3: idempotence of placement.  When a placement for (schoolCode,        *)
(* deviceId) is directly followed by a placement for the same pair, the    *)
(* second returns the same response (role, position, cluster, host slots)  *)
(* and leaves the state tree unchanged; a placement adds at most one       *)
(* device record, so both calls together add at most one.                  *)
C3_Idempotent ==
    [][ HandlerStep =>
          /\ (last.request.kind = "place" /\ last'.request = last.request)
                => (last'.resp = last.resp /\ schoolData' = schoolData)
          /\ last'.request.kind = "place"
                => DeviceCount(schoolData') <= DeviceCount(schoolData) + 1 ]_vars

\* a client placement repeated directly after itself
C3_Witness ==
    Placed /\ last.repeated /\ last.resp.role = "client"

----------------------------------------------------------------------------
\* role and host slots of the index table for the N-th device of list devs
TableRole(N) ==
    IF N = 1 THEN "host1" ELSE IF N = 2 THEN "host2" ELSE IF N = 3 THEN "host3" ELSE "client"

TableSlot(devs, N, k) ==
    IF k > N /\ N <= 3 THEN Absent
    ELSE IF k <= Len(devs) THEN devs[k] ELSE Absent

\* the list named by the latest placement, as it was before the step
ListBefore ==
    LET s == last'.request.schoolCode IN
    IF ~IsOwn(schoolData, s) THEN << >>
    ELSE IF deployed = "flat" THEN DeviceIdsOf(schoolData[s].devices)
    ELSE LET i == ClusterIndex(schoolData[s].clusters, last'.resp.clusterName) IN
         IF i = 0 THEN << >> ELSE DeviceIdsOf(schoolData[s].clusters[i].devices)

HeldBefore ==
    LET s == last'.request.schoolCode IN
    IF ~IsOwn(schoolData, s) THEN {}
    ELSE IF deployed = "flat" THEN Range(DeviceIdsOf(schoolData[s].devices))
    ELSE Registered(schoolData, s)

(* C4: role determinism.  A device that is placed for the first time is    *)
(* appended to its cluster's (school's) list, so the N-th distinct device  *)
(* of the list gets position N; every successful placement reports the     *)
(* device's position N in that list, role host1/host2/host3 for N = 1/2/3  *)
(* and client for N >= 4, the caller in its own slot, the earlier devices  *)
(* of the list in the lower slots and no later slot; placements for other  *)
(* school codes in between change none of this.                            *)
C4_RoleDeterminism ==
    [][ (HandlerStep /\ Placed') =>
          LET d == last'.request.deviceId
              r == last'.resp
              devs == PlacedList'
              N == r.position
          IN  /\ N \in 1..Len(devs) /\ devs[N] = d
              /\ r.role = TableRole(N)
              /\ r.hostDeviceId = TableSlot(devs, N, 1)
              /\ r.host2DeviceId = TableSlot(devs, N, 2)
              /\ r.host3DeviceId = TableSlot(devs, N, 3)
              /\ d \notin HeldBefore => devs = Append(ListBefore, d) /\ N = Len(devs)
              /\ d \in HeldBefore => devs = ListBefore ]_vars

\* the fourth device of ABC is placed while XYZ holds a device
C4_Witness ==
    /\ Placed /\ last.request.schoolCode = "ABC" /\ last.resp.position = 4
    /\ ~last.repeated /\ IsOwn(schoolData, "XYZ")

----------------------------------------------------------------------------
(* C6 as stated: after d1, d2 and d4 (d3 never placed) have been placed    *)
(* for ABC, d1 was answered host1 at position 1 with hostDeviceId d1, d2   *)
(* host2 with host1 d1, and d4 is answered client with host3 null.         *)
C6_Original ==
    (Placed /\ last.request.schoolCode = "ABC") =>
        /\ (PlacedList = <<"d1">> /\ last.request.deviceId = "d1") =>
              (last.resp.role = "host1" /\ last.resp.position = 1
                 /\ last.resp.hostDeviceId = "d1")
        /\ (PlacedList = <<"d1", "d2">> /\ last.request.deviceId = "d2") =>
              (last.resp.role = "host2" /\ last.resp.hostDeviceId = "d1"
                 /\ last.resp.hosts[1] = "d1")
        /\ (PlacedList = <<"d1", "d2", "d4">> /\ last.request.deviceId = "d4") =>
              (last.resp.role = "client" /\ last.resp.hosts[3] = Null)

(* C6 amended: after d1, d2 and d4 (d3 never placed) have been placed for  *)
(* ABC, d1 was answered host1 at position 1 with hostDeviceId d1, d2 host2 *)
(* with host1 d1, and d4, the third device, is answered host3 at position  *)
(* 3 with hostDeviceId d1, host2DeviceId d2 and host3DeviceId d4; host3 of *)
(* the hosts summary is d4, not null.                                      *)
C6_Scenario ==
    (Placed /\ last.request.schoolCode = "ABC") =>
        /\ (PlacedList = <<"d1">> /\ last.request.deviceId = "d1") =>
              (last.resp.role = "host1" /\ last.resp.position = 1
                 /\ last.resp.hostDeviceId = "d1")
        /\ (PlacedList = <<"d1", "d2">> /\ last.request.deviceId = "d2") =>
              (last.resp.role = "host2" /\ last.resp.hostDeviceId = "d1"
                 /\ last.resp.hosts[1] = "d1")
        /\ (PlacedList = <<"d1", "d2", "d4">> /\ last.request.deviceId = "d4") =>
              (last.resp.role = "host3" /\ last.resp.position = 3
                 /\ last.resp.hostDeviceId = "d1" /\ last.resp.host2DeviceId = "d2"
                 /\ last.resp.host3DeviceId = "d4" /\ last.resp.hosts[3] = "d4")

\* d4 has just been placed third, after d1 and d2
C6_Witness ==
    /\ Placed /\ last.request.schoolCode = "ABC" /\ last.request.deviceId = "d4"
    /\ ~last.repeated /\ PlacedList = <<"d1", "d2", "d4">>

----------------------------------------------------------------------------
(* C7: reset scenario.  When a school reset of S was answered with success *)
(* and the next request is a school query for S, the query is answered     *)
(* NotFound; when the next request is a placement for S, the placement is  *)
(* answered role host1 at position 1, in the clustered variant in cluster  *)
(* S_1 with totalDevices 1 and lastClusterNumber 1.                        *)
C7_ResetScenario ==
    [][ (HandlerStep /\ last.request.kind = "resetSchool" /\ last.resp.status = 200
            /\ last'.request.schoolCode = last.request.schoolCode) =>
          /\ last'.request.kind = "getSchool" => last'.resp.status = 404
          /\ (last'.request.kind = "place" /\ last'.request.deviceId # "") =>
                /\ last'.resp.status = 200
                /\ last'.resp.role = "host1" /\ last'.resp.position = 1
                /\ deployed = "clustered" =>
                      /\ last'.resp.clusterName = ClusterName(last.request.schoolCode, 1)
                      /\ last'.resp.totalDevicesInSchool = 1
                      /\ IsOwn(schoolData', last.request.schoolCode)
                      /\ schoolData'[last.request.schoolCode].lastClusterNumber = 1 ]_vars

----------------------------------------------------------------------------
(* C8: the resolver never rejects a well-formed call.  Every placement     *)
(* with a non-empty schoolCode and a non-empty deviceId is answered with   *)
(* success (status 200), never 400, 404 or 500.                            *)
C8_NeverRejects ==
    (last.request.kind = "place" /\ last.request.schoolCode # ""
        /\ last.request.deviceId # "") => last.resp.status = 200

----------------------------------------------------------------------------
\* the school, or the cluster of the school, that a request names is not in
\* the state tree
NamesAbsent(sd, request) ==
    \/ ~IsOwn(sd, request.schoolCode)
    \/ /\ request.kind \in {"getCluster", "resetCluster"}
       /\ ClusterIndex(sd[request.schoolCode].clusters,
                       ClusterName(request.schoolCode, request.clusterNumber)) = 0

(* C9: NotFound leaves everything unchanged.  A school reset for a school  *)
(* code that is not in the state tree, and a cluster reset or cluster      *)
(* query for an absent school or cluster, is answered NotFound (404),      *)
(* leaves the state tree unchanged and starts no save; a reset starts a    *)
(* save only when it is answered with success.                             *)
C9_NotFoundUnchanged ==
    [][ HandlerStep =>
          /\ (last'.request.kind \in {"resetSchool", "resetCluster", "getCluster"}
                /\ (last'.request.kind # "resetSchool" => deployed = "clustered")
                /\ NamesAbsent(schoolData, last'.request)) =>
                   /\ last'.resp.status = 404
                   /\ schoolData' = schoolData
                   /\ ~last'.saved /\ inflight' = inflight
          /\ (last'.request.kind \in {"resetSchool", "resetCluster"} /\ last'.saved)
                => last'.resp.status = 200 ]_vars

----------------------------------------------------------------------------
\* sum of the lengths of the device lists of a sequence of clusters
RECURSIVE SumDevices(_)
SumDevices(clusters) ==
    IF clusters = << >> THEN 0
    ELSE Len(Head(clusters).devices) + SumDevices(Tail(clusters))

(* C2: count consistency (clustered variant).  In every reachable state,   *)
(* for every school, totalDevices equals the sum of the lengths of the     *)
(* device lists of the clusters the school holds.                          *)
C2_CountConsistent ==
    deployed = "clustered" =>
        \A s \in DOMAIN schoolData :
            schoolData[s].totalDevices = SumDevices(schoolData[s].clusters)

\* the full first cluster has been reset, the second one holds devices, and
\* a placement has just been repeated
C2_Witness ==
    /\ IsOwn(schoolData, "ABC")
    /\ Len(schoolData["ABC"].clusters) = 1
    /\ schoolData["ABC"].clusters[1].clusterNumber = 2
    /\ schoolData["ABC"].totalDevices >= 3
    /\ Placed /\ last.repeated

----------------------------------------------------------------------------
\* the clusters of a school in state tree sd (none when the school is absent)
ClustersOf(sd, schoolCode) ==
    IF IsOwn(sd, schoolCode) THEN sd[schoolCode].clusters ELSE << >>

(* C5: capacity routing (clustered variant).  No cluster ever holds more   *)
(* than 10 devices.  When a placement registers a device the school did    *)
(* not hold while every cluster of the school held 10 devices, the device  *)
(* is the first device of a new cluster whose number is the school's       *)
(* previous lastClusterNumber + 1 (1 for a new school) and whose name is   *)
(* {schoolCode}_{number}, and the clusters held before are unchanged.      *)
C5_CapacityRouting ==
    [][ /\ \A g \in Groups(schoolData') : Len(g.devices) <= 10
        /\ (HandlerStep /\ Placed'
              /\ last'.request.deviceId \notin HeldBefore
              /\ \A c \in Range(ClustersOf(schoolData, last'.request.schoolCode)) :
                    Len(c.devices) = 10) =>
             LET s == last'.request.schoolCode
                 before == ClustersOf(schoolData, s)
                 number == (IF IsOwn(schoolData, s)
                            THEN schoolData[s].lastClusterNumber ELSE 0) + 1
             IN  /\ last'.resp.position = 1
                 /\ last'.resp.clusterNumber = number
                 /\ last'.resp.clusterName = ClusterName(s, number)
                 /\ schoolData'[s].lastClusterNumber = number
                 /\ schoolData'[s].clusters =
                       Append(before,
                              [clusterName |-> ClusterName(s, number),
                               clusterNumber |-> number,
                               devices |-> <<[deviceId |-> last'.request.deviceId]>>,
                               hosts |-> <<last'.request.deviceId>>]) ]_vars

\* the eleventh device has been placed first in cluster 2 beside a full cluster 1
C5_Witness ==
    /\ Placed /\ ~last.repeated
    /\ last.resp.clusterNumber = 2 /\ last.resp.position = 1
    /\ Len(schoolData[last.request.schoolCode].clusters) = 2
    /\ Len(schoolData[last.request.schoolCode].clusters[1].devices) = 10

----------------------------------------------------------------------------
\* the deviceIds of the list a response names: the cluster clusterName of the
\* school (clustered variant) or the school's list (flat variant)
ListNamed(sd, schoolCode, clusterName) ==
    IF ~IsOwn(sd, schoolCode) THEN << >>
    ELSE IF deployed = "flat" THEN DeviceIdsOf(sd[schoolCode].devices)
    ELSE LET i == ClusterIndex(sd[schoolCode].clusters, clusterName) IN
         IF i = 0 THEN << >> ELSE DeviceIdsOf(sd[schoolCode].clusters[i].devices)

\* the registration a suspended placement answered with is still in the tree
StillRegistered(sd, handler) ==
    LET devs == ListNamed(sd, handler.request.schoolCode, handler.resp.clusterName) IN
    /\ handler.resp.position \in 1..Len(devs)
    /\ devs[handler.resp.position] = handler.request.deviceId

\* how many device records of the school carry deviceId
Occurrences(sd, schoolCode, deviceId) ==
    LET RECURSIVE Count(_)
        Count(S) == IF S = {} THEN 0
                    ELSE LET g == CHOOSE g \in S : TRUE IN
                         Cardinality({i \in 1..Len(g.devices) :
                                         g.devices[i].deviceId = deviceId})
                            + Count(S \ {g})
    IN  Count({g \in Groups(sd) : g.schoolCode = schoolCode})

(* C10: no operation suspends mid-mutation.  With handlers overlapping at  *)
(* their saves, the state tree changes only in the step in which a handler *)
(* starts, never when a suspended handler resumes.  A placement that       *)
(* starts while a placement for the same (schoolCode, deviceId) is still   *)
(* suspended, its registration not reset in between, registers nothing and *)
(* creates no cluster, and returns the same cluster, position and role as  *)
(* the suspended one; no school ever holds a deviceId twice.               *)
C10_RacingPlacements ==
    [][ /\ schoolData' # schoolData => (HandlerStep /\ last'.saved)
        /\ \A s \in DOMAIN schoolData', d \in DeviceIds :
              Occurrences(schoolData', s, d) <= 1
        /\ \A i \in 1..Len(inflight) :
              (HandlerStep /\ Placed'
                 /\ inflight[i].request = last'.request
                 /\ StillRegistered(schoolData, inflight[i])) =>
                    /\ schoolData' = schoolData
                    /\ last'.resp.clusterName = inflight[i].resp.clusterName
                    /\ last'.resp.position = inflight[i].resp.position
                    /\ last'.resp.role = inflight[i].resp.role ]_vars

\* two placements of the second device of a school are suspended together
C10_Witness ==
    /\ Len(inflight) >= 2
    /\ inflight[1].request.kind = "place"
    /\ inflight[2].request = inflight[1].request
    /\ inflight[2].resp = inflight[1].resp
    /\ inflight[1].resp.position = 2
    /\ StillRegistered(schoolData, inflight[2])

----------------------------------------------------------------------------
(* C11: write-back persistence.  With handlers overlapping at their saves  *)
(* and no write failing, whenever every started request has returned its   *)
(* response (no handler is suspended) and a save has been made, the        *)
(* content of the snapshot file equals the serialised current state tree.  *)
C11_WriteBack ==
    (Idle /\ file # NoFile) => file = Stringify(schoolData)

----------------------------------------------------------------------------
(* C12: persistence failures are not fatal.  While no handler has run      *)
(* since the server started, the state tree is the empty map if the data   *)
(* file is missing or cannot be parsed.  When the write of a suspended     *)
(* handler fails, the handler sends the success response it had composed   *)
(* (the one it sends when the write succeeds) and the state tree keeps the *)
(* handler's mutation; a placement repeated after the failed save is       *)
(* answered from that kept state with the same response.                   *)
C12_FailuresNonFatal ==
    /\ []((last.request.kind = "none" /\ file \in {NoFile, Unparsable})
            => schoolData = EmptyData)
    /\ [][ /\ (out'.saveError /\ Len(inflight') < Len(inflight)) =>
                /\ \E i \in 1..Len(inflight) :
                      inflight' = Resumed(i) /\ out'.resp = inflight[i].resp
                /\ out'.resp.status = 200
                /\ schoolData' = schoolData
           /\ (HandlerStep /\ out.saveError /\ last.request.kind = "place"
                 /\ last'.request = last.request) =>
                (last'.resp = out.resp /\ schoolData' = schoolData) ]_vars

\* the save of the second device's placement failed and left a fragment in
\* the file; the device is in the tree and its client was answered host2
C12_Witness ==
    /\ out.saveError /\ out.resp.role = "host2" /\ file = Unparsable
    /\ Placed /\ PlacedList = <<"d1", "d2">>

----------------------------------------------------------------------------
\* sequence s without its i-th element
Without(s, i) == [j \in 1..(Len(s) - 1) |-> IF j < i THEN s[j] ELSE s[j + 1]]

(* C13: cluster reset is local (clustered variant).  A cluster reset that  *)
(* is answered with success removes exactly the named cluster from its     *)
(* school and lowers the school's totalDevices by exactly the number of    *)
(* devices that cluster held; the school's other clusters and its          *)
(* lastClusterNumber are unchanged, the school's entry remains (even with  *)
(* no cluster left), and every other school is unchanged.                  *)
C13_ClusterResetLocal ==
    [][ (HandlerStep /\ last'.request.kind = "resetCluster"
            /\ last'.resp.status = 200) =>
          LET s == last'.request.schoolCode
              name == ClusterName(s, last'.request.clusterNumber)
              i == ClusterIndex(ClustersOf(schoolData, s), name)
          IN  /\ i # 0
              /\ IsOwn(schoolData', s)
              /\ schoolData'[s].clusters = Without(schoolData[s].clusters, i)
              /\ schoolData'[s].totalDevices =
                    schoolData[s].totalDevices - Len(schoolData[s].clusters[i].devices)
              /\ schoolData'[s].lastClusterNumber = schoolData[s].lastClusterNumber
              /\ DOMAIN schoolData' = DOMAIN schoolData
              /\ \A t \in DOMAIN schoolData \ {s} : schoolData'[t] = schoolData[t] ]_vars

\* the full first cluster of ABC has just been reset; its second cluster and
\* school XYZ are still there
C13_Witness ==
    /\ last.request.kind = "resetCluster" /\ last.resp.status = 200
    /\ last.request.schoolCode = "ABC" /\ last.request.clusterNumber = 1
    /\ Len(ClustersOf(schoolData, "ABC")) = 1
    /\ schoolData["ABC"].clusters[1].clusterNumber = 2
    /\ schoolData["ABC"].totalDevices = Len(schoolData["ABC"].clusters[1].devices)
    /\ IsOwn(schoolData, "XYZ")

----------------------------------------------------------------------------
\* the places, in creation order, of the clusters with fewer than 10 devices
Open(clusters) ==
    {i \in 1..Len(clusters) : Len(clusters[i].devices) < 10}

(* C14: first-fit placement (clustered variant).  A successful placement   *)
(* of a device its school does not hold appends the device to the          *)
(* earliest-created cluster of the school that has fewer than 10 devices   *)
(* and leaves the other clusters as they were; a cluster is created only   *)
(* when no cluster of the school has fewer than 10 devices.  A placement   *)
(* of a device the school holds names the cluster that contains it and     *)
(* creates and modifies nothing.                                           *)
C14_FirstFit ==
    [][ (HandlerStep /\ Placed') =>
          LET s == last'.request.schoolCode
              d == last'.request.deviceId
              before == ClustersOf(schoolData, s)
              after == ClustersOf(schoolData', s)
              open == Open(before)
          IN  /\ (d \notin HeldBefore /\ open # {}) =>
                    LET i == CHOOSE i \in open : \A j \in open : i <= j IN
                    /\ \A j \in open : before[i].clusterNumber <= before[j].clusterNumber
                    /\ Len(after) = Len(before)
                    /\ after[i].devices = Append(before[i].devices, [deviceId |-> d])
                    /\ \A j \in 1..Len(before) : j # i => after[j] = before[j]
                    /\ last'.resp.clusterName = before[i].clusterName
              /\ Len(after) > Len(before) => (d \notin HeldBefore /\ open = {})
              /\ d \in HeldBefore =>
                    /\ schoolData' = schoolData
                    /\ \E i \in 1..Len(before) :
                          /\ DeviceIndex(before[i].devices, d) # 0
                          /\ last'.resp.clusterName = before[i].clusterName ]_vars

\* the twelfth device has joined the second cluster beside a full first one
C14_Witness ==
    /\ Placed /\ ~last.repeated
    /\ last.resp.clusterNumber = 2 /\ last.resp.position = 2
    /\ Len(ClustersOf(schoolData, last.request.schoolCode)) = 2
    /\ Open(ClustersOf(schoolData, last.request.schoolCode)) = {2}

----------------------------------------------------------------------------
(* C15: device uniqueness.  In every reachable state a deviceId occurs in  *)
(* at most one device record of a school: in at most one cluster of the    *)
(* school and at most once in that cluster's list (clustered variant), at  *)
(* most once in the school's list (flat variant).  The same deviceId may   *)
(* be held by different schools.                                           *)
C15_DeviceUnique ==
    \A s \in DOMAIN schoolData : \A g \in Groups(schoolData) :
        g.schoolCode = s =>
            \A i \in 1..Len(g.devices) : Occurrences(schoolData, s, g.devices[i].deviceId) = 1

\* d1 is held by ABC and by XYZ, ABC has a second list or more than ten
\* devices, and a placement has just been repeated
C15_Witness ==
    /\ IsOwn(schoolData, "ABC") /\ IsOwn(schoolData, "XYZ")
    /\ Occurrences(schoolData, "ABC", "d1") = 1
    /\ Occurrences(schoolData, "XYZ", "d1") = 1
    /\ Occurrences(schoolData, "ABC", "d11") = 1
    /\ Placed /\ last.repeated /\ last.request.deviceId = "d1"

----------------------------------------------------------------------------
\* the device lists of the state tree by name: <<schoolCode, clusterName>>
\* (clustered variant) or <<schoolCode, Absent>> (flat variant)
ListKeys(sd) ==
    IF deployed = "clustered"
    THEN UNION {{<<s, c.clusterName>> : c \in Range(sd[s].clusters)} : s \in DOMAIN sd}
    ELSE {<<s, Absent>> : s \in DOMAIN sd}

\* the latest handler was a successful reset of the list's cluster or school
ResetOf(key) ==
    /\ last.resp.status = 200 /\ last.request.schoolCode = key[1]
    /\ \/ last.request.kind = "resetSchool"
       \/ /\ last.request.kind = "resetCluster"
          /\ ClusterName(key[1], last.request.clusterNumber) = key[2]

\* x is the element at place `position` of seq
HoldsAt(seq, position, x) ==
    position \in 1..Len(seq) /\ seq[position] = x

(* C16: assignment stability.  A device list (of a cluster, or of a school *)
(* in the flat variant) is changed only by appending: whatever a handler   *)
(* does, unless it is a successful reset of that very cluster or of its    *)
(* school, the list is still there afterwards with the records it held in  *)
(* the same places.  A successful placement reports the place of the       *)
(* device in its list, and for a device its school already holds it        *)
(* reports the cluster and place the device had before the step, with the  *)
(* role of that place: so later placements of a pair repeat the cluster,   *)
(* position and role of the first one until the device's own cluster or    *)
(* school is reset.                                                        *)
C16_AssignmentStable ==
    [][ HandlerStep =>
          /\ schoolData' # schoolData =>
                \A key \in ListKeys(schoolData) :
                    \/ ResetOf(key)'
                    \/ LET old == ListNamed(schoolData, key[1], key[2])
                           new == ListNamed(schoolData', key[1], key[2])
                       IN  /\ key \in ListKeys(schoolData')
                           /\ Len(new) >= Len(old)
                           /\ \A i \in 1..Len(old) : new[i] = old[i]
          /\ Placed' =>
                LET s == last'.request.schoolCode
                    d == last'.request.deviceId
                    r == last'.resp
                IN  /\ HoldsAt(PlacedList', r.position, d)
                    /\ r.role = TableRole(r.position)
                    /\ d \in HeldBefore =>
                          \E key \in ListKeys(schoolData) :
                              /\ key[1] = s
                              /\ HoldsAt(ListNamed(schoolData, s, key[2]), r.position, d)
                              /\ deployed = "clustered" => r.clusterName = key[2] ]_vars

\* d11 is placed again, after d12 has joined its cluster and the school's
\* first cluster has been reset, and is answered host1 of cluster 2 as before
C16_Witness ==
    /\ Placed /\ ~last.repeated /\ last.request.deviceId = "d11"
    /\ last.resp.position = 1 /\ last.resp.role = "host1"
    /\ PlacedList = <<"d11", "d12">>
    /\ Len(ClustersOf(schoolData, last.request.schoolCode)) = 1
    /\ last.resp.clusterNumber = 2

----------------------------------------------------------------------------
\* the state tree with no entry but that of schoolCode
Only(sd, schoolCode) == [k \in DOMAIN sd \cap {schoolCode} |-> sd[k]]

\* the placement of the deployed server
Place(sd, schoolCode, deviceId) ==
    IF deployed = "clustered" THEN PlaceClustered(sd, schoolCode, deviceId)
    ELSE PlaceFlat(sd, schoolCode, deviceId)

----------------------------------------------------------------------------
(* C18: a single open cluster (clustered variant).  In every reachable     *)
(* state each school has at most one cluster with fewer than 10 devices;   *)
(* if there is one, it is the school's cluster with the highest            *)
(* clusterNumber; and every cluster holds at least 1 device.               *)
C18_SingleOpenCluster ==
    deployed = "clustered" =>
        \A s \in DOMAIN schoolData :
            LET clusters == schoolData[s].clusters IN
            /\ Cardinality(Open(clusters)) <= 1
            /\ \A i \in Open(clusters) : \A j \in 1..Len(clusters) :
                  clusters[j].clusterNumber <= clusters[i].clusterNumber
            /\ \A j \in 1..Len(clusters) : Len(clusters[j].devices) >= 1

\* a full cluster 1 beside an open cluster 2 in ABC, while XYZ's only
\* cluster is open
C18_Witness ==
    /\ IsOwn(schoolData, "ABC") /\ IsOwn(schoolData, "XYZ")
    /\ Len(schoolData["ABC"].clusters) = 2
    /\ Open(schoolData["ABC"].clusters) = {2}
    /\ Open(schoolData["XYZ"].clusters) = {1}

----------------------------------------------------------------------------
\* lastClusterNumber of a school (0 when the school is absent: a new school
\* starts from 0)
LastNumber(sd, schoolCode) ==
    IF IsOwn(sd, schoolCode) THEN sd[schoolCode].lastClusterNumber ELSE 0

(* C19: cluster numbers are never reused (clustered variant).  In every    *)
(* state the clusters of a school have pairwise distinct clusterNumbers in *)
(* 1..lastClusterNumber and are named {schoolCode}_{clusterNumber}.  No    *)
(* handler other than a reset of the school lowers the school's            *)
(* lastClusterNumber; a cluster reset leaves it as it is; and a cluster    *)
(* that a handler creates is numbered lastClusterNumber + 1, above every   *)
(* number given before, so the number of a reset cluster is not given      *)
(* again.                                                                  *)
C19_NumbersNotReused ==
    [][ (HandlerStep /\ deployed = "clustered") =>
          \A s \in DOMAIN schoolData' :
              LET before == ClustersOf(schoolData, s)
                  after == schoolData'[s].clusters
                  created == {j \in 1..Len(after) :
                                 ClusterIndex(before, after[j].clusterName) = 0}
              IN  /\ \A i, j \in 1..Len(after) :
                        i # j => after[i].clusterNumber # after[j].clusterNumber
                  /\ \A j \in 1..Len(after) :
                        /\ after[j].clusterNumber \in 1..schoolData'[s].lastClusterNumber
                        /\ after[j].clusterName = ClusterName(s, after[j].clusterNumber)
                  /\ schoolData'[s].lastClusterNumber >= LastNumber(schoolData, s)
                  /\ last'.request.kind = "resetCluster" =>
                        schoolData'[s].lastClusterNumber = LastNumber(schoolData, s)
                  /\ \A j \in created :
                        /\ after[j].clusterNumber = LastNumber(schoolData, s) + 1
                        /\ schoolData'[s].lastClusterNumber = after[j].clusterNumber ]_vars

\* the only cluster of a school has been reset and the next device has just
\* been placed first in a new cluster, numbered 2
C19_Witness ==
    /\ Placed /\ ~last.repeated /\ last.resp.position = 1
    /\ last.resp.clusterNumber = 2
    /\ last.resp.clusterName = ClusterName(last.request.schoolCode, 2)
    /\ Len(ClustersOf(schoolData, last.request.schoolCode)) = 1
    /\ schoolData[last.request.schoolCode].totalDevices = 1

----------------------------------------------------------------------------
(* C20: host slots are populated up to the caller's role.  In every        *)
(* successful placement response hostDeviceId is present and not null and *)
(* is the deviceId of the first device of the caller's list (its cluster;  *)
(* the school's list in the flat variant).  A response with role client    *)
(* carries three host ids, hostDeviceId, host2DeviceId and host3DeviceId,  *)
(* none null or missing, pairwise distinct and none the caller's deviceId. *)
(* A slot of the hosts summary is null only when the list holds fewer than *)
(* 3 devices (slot k is null exactly when it holds fewer than k).          *)
C20_HostSlots ==
    (Idle /\ Placed) =>
        LET r == last.resp
            devs == PlacedList
            ids == <<r.hostDeviceId, r.host2DeviceId, r.host3DeviceId>>
        IN  /\ r.hostDeviceId \notin {Null, Absent}
            /\ r.hostDeviceId = devs[1]
            /\ r.role = "client" =>
                  /\ \A k \in 1..3 : ids[k] \notin {Null, Absent, last.request.deviceId}
                  /\ \A j, k \in 1..3 : j # k => ids[j] # ids[k]
            /\ \A k \in 1..3 :
                  /\ r.hosts[k] = Null <=> Len(devs) < k
                  /\ r.hosts[k] = Null => Len(devs) < 3

\* a client of cluster 2, whose hosts are d11, d12 and a device that came
\* back after the reset of cluster 1
C20_Witness ==
    /\ Idle /\ Placed /\ last.resp.role = "client"
    /\ last.resp.clusterNumber = 2
    /\ last.resp.hostDeviceId = "d11" /\ last.resp.host2DeviceId = "d12"
    /\ last.resp.host3DeviceId = "d1"

----------------------------------------------------------------------------
\* the flat server's school holds at most 10 devices (or is absent); with
\* placements and school resets only, a school's list never shrinks while the
\* school exists, so it has then never held more since it was created
BelowCapacity(schoolCode) ==
    schoolCode \in DOMAIN peer.schoolData =>
        Len(peer.schoolData[schoolCode].devices) <= 10

====
